---- MODULE Spec2Model ----
(***************************************************************************)
(* The five flowgraph scripts of the repository, run as one process each:  *)
(* the main program, the flowgraph constructor it calls, the handlers the  *)
(* main loop dispatches (closeEvent, sig_handler, set_samp_rate, the       *)
(* finally block) and the flowgraph engine the scripts drive (connect,     *)
(* start, stop, wait, the scheduler's tick and drain).                     *)
(*                                                                         *)
(* Sample rates are in Hz.  Amplitudes are in tenths (0.5 is 5).           *)
(***************************************************************************)
EXTENDS Integers, Sequences, FiniteSets, TLC

\* ---------------------------------------------------------------- bounds
\* SIGINT/SIGTERM deliveries considered in one run.
MaxSignals == 2
\* set_samp_rate calls considered in one run.
MaxSetRate == 2
\* set_samp_rate arguments are the first MaxRateIdx multiples of RateStep.
MaxRateIdx == 2

RateChoices == { 250000 * k : k \in 1..MaxRateIdx }

\* ------------------------------------------------------------ the scripts
Scripts ==
  { "fm_tx_rx_usrp_1", "audio_fm_rx", "audio_fm_tx", "fm_tx_usrp1_rfx900", "transceive" }

\* The scripts whose main loop is the Qt event loop (qapp.exec_()).
QtScripts == { "audio_fm_rx", "fm_tx_usrp1_rfx900", "transceive" }

VARIABLES
  script,      \* the script that is run
  argv,        \* [rx, mic]: the --rx and --mic flags of fm_tx_rx_usrp_1.py
  micOK,       \* the ALSA capture device can be opened
  usrpOK,      \* the USRP1 can be opened
  strict,      \* the engine enforces the flow graph contract (single-edge ports,
               \* rate validation in start()) instead of accepting every graph
  pc,          \* position of the main program
  frame,       \* the constructor or handler the main thread is inside
  stack,       \* the handlers a signal interrupted, innermost last
  retry,       \* the except clause of fm_tx_rx_usrp_1.py has been entered
  blocks,      \* the flowgraph's blocks: name -> parameters
  edges,       \* the flowgraph's edges: <<upstream block, downstream block>>
  lifecycle,   \* Configured, Running, Stopping or Stopped
  error,       \* the exception that ended the last failed call, or "none"
  out,         \* what the process printed
  samp_rate,   \* self.samp_rate of fm_tx_usrp1_rfx900
  windowOpen,  \* the Qt window is shown and not yet closed
  quitReq,     \* QApplication.quit() has been requested
  observed,    \* the rates the scheduler's last tick streamed with: name -> rate
  micFailed,   \* a construction attempt failed at audio.source
  startCalls, stopCalls, waitCalls, signals, setCalls

vars ==
  << script, argv, micOK, usrpOK, strict, pc, frame, stack, retry, blocks, edges,
     lifecycle, error, out, samp_rate, windowOpen, quitReq, observed, micFailed,
     startCalls, stopCalls, waitCalls, signals, setCalls >>

env == << script, argv, micOK, usrpOK, strict >>

\* ------------------------------------------------------------- the blocks
NoBlk ==
  [ kind |-> "", tin |-> "", tout |-> "", rate |-> 0, quad |-> 0, interp |-> 1,
    decim |-> 1, freq |-> 0, amp10 |-> 0, cfreq |-> 0, gain |-> 0, ant |-> "",
    title |-> "" ]

\* analog.sig_source_f(sampling_freq, GR_SIN_WAVE, frequency, amplitude)
sig_source_f(rate, freq, amp10) ==
  [ NoBlk EXCEPT !.kind = "sig_source", !.tout = "f", !.rate = rate,
                 !.freq = freq, !.amp10 = amp10 ]

\* analog.sig_source_c(sampling_freq, GR_SIN_WAVE, frequency, amplitude)
sig_source_c(rate, freq, amp10) ==
  [ NoBlk EXCEPT !.kind = "sig_source", !.tout = "c", !.rate = rate,
                 !.freq = freq, !.amp10 = amp10 ]

\* audio.source(sampling_rate, device, ok_to_block)
audio_source(rate) ==
  [ NoBlk EXCEPT !.kind = "audio_source", !.tout = "f", !.rate = rate ]

\* audio.sink(sampling_rate, device, ok_to_block)
audio_sink(rate) ==
  [ NoBlk EXCEPT !.kind = "audio_sink", !.tin = "f", !.rate = rate ]

\* filter.rational_resampler_fff(interpolation, decimation)
rational_resampler_fff(interpolation, decimation) ==
  [ NoBlk EXCEPT !.kind = "resampler", !.tin = "f", !.tout = "f",
                 !.interp = interpolation, !.decim = decimation ]

\* analog.wfm_tx(audio_rate, quad_rate, tau, max_dev)
wfm_tx(audio_rate, quad_rate) ==
  [ NoBlk EXCEPT !.kind = "wfm_tx", !.tin = "f", !.tout = "c",
                 !.rate = audio_rate, !.quad = quad_rate ]

\* analog.wfm_rcv(quad_rate, audio_decimation)
wfm_rcv(quad_rate, audio_decimation) ==
  [ NoBlk EXCEPT !.kind = "wfm_rcv", !.tin = "c", !.tout = "f",
                 !.quad = quad_rate, !.decim = audio_decimation ]

\* uhd.usrp_sink(...) followed by its set_samp_rate, set_center_freq, set_gain
\* and set_antenna calls
usrp_sink(rate, cfreq, gain, ant) ==
  [ NoBlk EXCEPT !.kind = "usrp_sink", !.tin = "c", !.rate = rate,
                 !.cfreq = cfreq, !.gain = gain, !.ant = ant ]

\* uhd.usrp_source(...) followed by its set_* calls
usrp_source(rate, cfreq, gain, ant) ==
  [ NoBlk EXCEPT !.kind = "usrp_source", !.tout = "c", !.rate = rate,
                 !.cfreq = cfreq, !.gain = gain, !.ant = ant ]

\* qtgui.freq_sink_c(fftsize, wintype, fc, bw, name, nconnections)
freq_sink_c(bw, title) ==
  [ NoBlk EXCEPT !.kind = "display", !.tin = "c", !.rate = bw, !.title = title ]

\* qtgui.time_sink_c(size, samp_rate, name, nconnections)
time_sink_c(rate, title) ==
  [ NoBlk EXCEPT !.kind = "display", !.tin = "c", !.rate = rate, !.title = title ]

\* blocks.multiply_const_ff(k)
multiply_const_ff(k10) ==
  [ NoBlk EXCEPT !.kind = "multiply_const", !.tin = "f", !.tout = "f", !.amp10 = k10 ]

\* blocks.float_to_complex(1)
float_to_complex ==
  [ NoBlk EXCEPT !.kind = "float_to_complex", !.tin = "f", !.tout = "c" ]

\* int(a / b) and int(a // b) of two positive numbers: the quotient, truncated
int_div(a, b) == a \div b

\* ------------------------------------------------- rates and the flow graph
RECURSIVE GCD(_, _)
GCD(a, b) == IF b = 0 THEN a ELSE GCD(b, a % b)

\* A rate is a fraction <<numerator, denominator>> of Hz.
RateEq(r, s) == r[1] * s[2] = s[1] * r[2]

\* The block that feeds b, when b's input is connected.
Upstream(E, b) == { e[1] : e \in { x \in E : x[2] = b } }

\* The input rate a block is declared to take; 0 when it takes any rate.
ExpectedIn(blk) ==
  CASE blk.kind = "wfm_tx" -> blk.rate
    [] blk.kind = "wfm_rcv" -> blk.quad
    [] blk.kind \in { "usrp_sink", "audio_sink", "display" } -> blk.rate
    [] OTHER -> 0

\* declare_rate: the rate at which block b produces in graph (B, E).
RECURSIVE OutRate(_, _, _)
OutRate(B, E, b) ==
  LET blk == B[b]
      ups == Upstream(E, b)
      inr == IF ups = {} THEN << 0, 1 >> ELSE OutRate(B, E, CHOOSE u \in ups : TRUE)
  IN  CASE blk.kind \in { "sig_source", "audio_source", "usrp_source" } -> << blk.rate, 1 >>
        [] blk.kind = "wfm_tx" -> << blk.quad, 1 >>
        [] blk.kind = "wfm_rcv" -> << blk.quad, blk.decim >>
        [] blk.kind = "resampler" ->
             LET g == GCD(blk.interp, blk.decim)
             IN  << inr[1] * (blk.interp \div g), inr[2] * (blk.decim \div g) >>
        [] OTHER -> inr

\* One edge passes validation when the downstream block takes any rate or
\* takes exactly the rate the upstream block produces.
EdgeRateOK(B, E, e) ==
  \/ ExpectedIn(B[e[2]]) = 0
  \/ RateEq(OutRate(B, E, e[1]), << ExpectedIn(B[e[2]]), 1 >>)

\* validate(): every edge passes.
Validate(B, E) == \A e \in E : EdgeRateOK(B, E, e)

\* The blocks reachable from the blocks S along E.
RECURSIVE ReachFrom(_, _)
ReachFrom(E, S) ==
  LET T == S \cup { e[2] : e \in { x \in E : x[1] \in S } }
  IN  IF T = S THEN S ELSE ReachFrom(E, T)

OutputConnected(E, u) == \E e \in E : e[1] = u

InputConnected(E, v) == \E e \in E : e[2] = v

\* connect(u, v) is accepted.  Every engine refuses an input port that is
\* already fed, mismatched sample types and a cycle; the strict engine also
\* refuses an output port that already has an edge.
ConnectOK(st, B, E, u, v) ==
  /\ B[u].tout = B[v].tin
  /\ B[u].tout # ""
  /\ ~InputConnected(E, v)
  /\ u \notin ReachFrom(E, {v})
  /\ st => ~OutputConnected(E, u)

\* ------------------------------------------------------ the constructors
\* A constructor or handler is the sequence of its statements:
\*   <<"print", tag>>  <<"new", name, block>>  <<"connect", upstream, downstream>>
\*   <<"stop">>  <<"wait">>  <<"quit">>  <<"accept">>
\*   <<"assign", r>>  <<"set_sampling_freq", block>>  <<"set_samp_rate", block>>

\* The constructor with a fallback branch that prints no warning.
fm_tx_usrp1_rfx900_audio_silent(fallback) ==
  << << "new", "audio_source",
        IF fallback THEN sig_source_f(48000, 1000, 5) ELSE audio_source(48000) >>,
     << "new", "resampler", rational_resampler_fff(480000, 48000) >>,
     << "new", "wfm_tx", wfm_tx(48000, 480000) >>,
     << "new", "usrp_sink", usrp_sink(480000, 915000000, 20, "") >>,
     << "connect", "audio_source", "resampler" >>,
     << "connect", "resampler", "wfm_tx" >>,
     << "connect", "wfm_tx", "usrp_sink" >> >>

\* fm_tx_usrp1_rfx900_audio.__init__(fallback)
fm_tx_usrp1_rfx900_audio(fallback) ==
  ( IF fallback
      THEN << << "print", "WARN" >>,
              << "new", "audio_source", sig_source_f(48000, 1000, 5) >> >>
      ELSE << << "new", "audio_source", audio_source(48000) >> >> )
  \o
  << << "new", "resampler", rational_resampler_fff(480000, 48000) >>,
     << "new", "wfm_tx", wfm_tx(48000, 480000) >>,
     << "new", "usrp_sink", usrp_sink(480000, 915000000, 20, "") >>,
     << "connect", "audio_source", "resampler" >>,
     << "connect", "resampler", "wfm_tx" >>,
     << "connect", "wfm_tx", "usrp_sink" >> >>

\* fm_rx_usrp1_rfx900_audio.__init__()
fm_rx_usrp1_rfx900_audio ==
  << << "new", "usrp_source", usrp_source(500000, 915000000, 40, "") >>,
     << "new", "wfm_rcv", wfm_rcv(500000, int_div(500000, 48000)) >>,
     << "new", "audio_sink", audio_sink(48000) >>,
     << "connect", "usrp_source", "wfm_rcv" >>,
     << "connect", "wfm_rcv", "audio_sink" >> >>

\* AudioFMRX.__init__()
AudioFMRX ==
  << << "new", "usrp_source", usrp_source(500000, 915000000, 30, "TX/RX") >>,
     << "new", "fm_rcv", wfm_rcv(500000, int_div(500000, 50000)) >>,
     << "new", "audio_sink", audio_sink(50000) >>,
     << "new", "freq_sink", freq_sink_c(500000, "RX Spectrum") >>,
     << "connect", "usrp_source", "freq_sink" >>,
     << "connect", "usrp_source", "fm_rcv" >>,
     << "connect", "fm_rcv", "audio_sink" >> >>

\* AudioFMTX.__init__()
AudioFMTX ==
  << << "new", "tone", sig_source_f(50000, 1000, 5) >>,
     << "new", "fm_mod", wfm_tx(50000, 500000) >>,
     << "new", "usrp_sink", usrp_sink(500000, 915000000, 30, "TX/RX") >>,
     << "connect", "tone", "fm_mod" >>,
     << "connect", "fm_mod", "usrp_sink" >> >>

\* fm_tx_usrp1_rfx900.__init__()
fm_tx_usrp1_rfx900 ==
  << << "assign", 500000 >>,
     << "new", "uhd_usrp_sink_0", usrp_sink(500000, 915000000, 20, "TX/RX") >>,
     << "new", "signal_source_0", sig_source_f(500000, 1000, 10) >>,
     << "new", "multiply_const_0", multiply_const_ff(5) >>,
     << "new", "float_to_complex_0", float_to_complex >>,
     << "connect", "float_to_complex_0", "uhd_usrp_sink_0" >>,
     << "connect", "multiply_const_0", "float_to_complex_0" >>,
     << "connect", "signal_source_0", "multiply_const_0" >> >>

\* tx_rx_demo.__init__()
tx_rx_demo ==
  << << "new", "tx_signal", sig_source_c(1000000, 100000, 5) >>,
     << "new", "usrp_sink", usrp_sink(1000000, 915000000, 30, "TX/RX") >>,
     << "new", "usrp_source", usrp_source(1000000, 915000000, 30, "RX2") >>,
     << "new", "freq_sink", freq_sink_c(1000000, "Received Spectrum") >>,
     << "new", "time_sink", time_sink_c(1000000, "Received Signal") >>,
     << "connect", "tx_signal", "usrp_sink" >>,
     << "connect", "tx_signal", "freq_sink" >>,
     << "connect", "tx_signal", "time_sink" >> >>

\* tb = <the script's flowgraph class>(...)
Ctor(s, a, fallback) ==
  CASE s = "fm_tx_rx_usrp_1" ->
         IF a.rx THEN fm_rx_usrp1_rfx900_audio ELSE fm_tx_usrp1_rfx900_audio(fallback)
    [] s = "audio_fm_rx" -> AudioFMRX
    [] s = "audio_fm_tx" -> AudioFMTX
    [] s = "fm_tx_usrp1_rfx900" -> fm_tx_usrp1_rfx900
    [] s = "transceive" -> tx_rx_demo

\* ---------------------------------------------------------- the handlers
\* AudioFMRX.closeEvent
AudioFMRX_closeEvent == << << "stop" >>, << "wait" >>, << "accept" >> >>

\* sig_handler of audio_fm_rx.py's main
audio_fm_rx_sig_handler == << << "quit" >> >>

\* fm_tx_usrp1_rfx900.closeEvent
fm_tx_usrp1_rfx900_closeEvent == << << "stop" >>, << "wait" >>, << "accept" >> >>

\* sig_handler that does not wait for the graph it stopped.
fm_tx_usrp1_rfx900_sig_handler_no_wait == << << "stop" >>, << "quit" >> >>

\* sig_handler of fm_tx_usrp1_rfx900.py's main
fm_tx_usrp1_rfx900_sig_handler == << << "stop" >>, << "wait" >>, << "quit" >> >>

\* tx_rx_demo.closeEvent
tx_rx_demo_closeEvent == << << "stop" >>, << "wait" >>, << "accept" >> >>

\* sig_handler of transceive.py's main
transceive_sig_handler == << << "quit" >> >>

\* set_samp_rate that builds a second source block at the new rate.
set_samp_rate_rebuild(r) ==
  << << "assign", r >>,
     << "new", "signal_source_1", sig_source_f(r, 1000, 10) >>,
     << "set_samp_rate", "uhd_usrp_sink_0" >> >>

\* fm_tx_usrp1_rfx900.set_samp_rate(samp_rate)
set_samp_rate(r) ==
  << << "assign", r >>,
     << "set_sampling_freq", "signal_source_0" >>,
     << "set_samp_rate", "uhd_usrp_sink_0" >> >>

\* the finally block of fm_tx_rx_usrp_1.py's __main__
fm_tx_rx_usrp_1_finally == << << "stop" >>, << "wait" >> >>

\* The two calls in the other order.
audio_fm_tx_wait_first == << << "wait" >>, << "stop" >> >>

\* what follows the sleep loop of audio_fm_tx.py's main
audio_fm_tx_after_loop == << << "stop" >>, << "wait" >> >>

closeEvent(s) ==
  CASE s = "audio_fm_rx" -> AudioFMRX_closeEvent
    [] s = "fm_tx_usrp1_rfx900" -> fm_tx_usrp1_rfx900_closeEvent
    [] s = "transceive" -> tx_rx_demo_closeEvent

sig_handler(s) ==
  CASE s = "audio_fm_rx" -> audio_fm_rx_sig_handler
    [] s = "fm_tx_usrp1_rfx900" -> fm_tx_usrp1_rfx900_sig_handler
    [] s = "transceive" -> transceive_sig_handler

leave_loop(s) ==
  CASE s = "fm_tx_rx_usrp_1" -> fm_tx_rx_usrp_1_finally
    [] s = "audio_fm_tx" -> audio_fm_tx_after_loop

\* ------------------------------------------------------------- the frame
Idle == [ name |-> "idle", i |-> 1, blocked |-> FALSE, arg |-> 0, fb |-> FALSE ]

Call(name, arg, fb) == [ name |-> name, i |-> 1, blocked |-> FALSE, arg |-> arg, fb |-> fb ]

\* The statements of the constructor or handler the main thread is inside.
Body(f) ==
  CASE f.name = "init" -> Ctor(script, argv, f.fb)
    [] f.name = "closeEvent" -> closeEvent(script)
    [] f.name = "sig_handler" -> sig_handler(script)
    [] f.name = "set_samp_rate" -> set_samp_rate(f.arg)
    [] f.name = "leave_loop" -> leave_loop(script)
    [] OTHER -> << >>

\* The statement the main thread executes next, << "none" >> when there is none.
Stmt ==
  IF frame.i <= Len(Body(frame)) /\ ~frame.blocked THEN Body(frame)[frame.i] ELSE << "none" >>

Advance == [ frame EXCEPT !.i = @ + 1, !.blocked = FALSE ]

EmptyGraph == [ b \in {} |-> NoBlk ]

\* -------------------------------------------------------------- the engine
\* The device a block opens when it is constructed is there.
Available(blk) ==
  /\ blk.kind = "audio_source" => micOK
  /\ blk.kind \in { "usrp_sink", "usrp_source" } => usrpOK

\* start() goes through: the graph is Configured and, on the strict engine, valid.
StartOK(st, B, E, lc) == lc = "Configured" /\ (st => Validate(B, E))

\* stop(): a Running graph is asked to stop; any other graph is left as it is.
StopGraph(lc) == IF lc = "Running" THEN "Stopping" ELSE lc

\* wait() returns once no execution context is left to join.
Joined(lc) == lc \in { "Configured", "Stopped" }

\* The blocks that stream at a rate of their own.
RateBlocks(B) ==
  { b \in DOMAIN B : B[b].kind \in { "sig_source", "audio_source", "usrp_source",
                                      "usrp_sink", "audio_sink" } }

\* ------------------------------------------------------------------- Init
Init ==
  /\ script \in Scripts
  /\ argv \in IF script = "fm_tx_rx_usrp_1"
                THEN [ rx : BOOLEAN, mic : BOOLEAN ]
                ELSE { [ rx |-> FALSE, mic |-> FALSE ] }
  /\ micOK \in IF script = "fm_tx_rx_usrp_1" THEN BOOLEAN ELSE { TRUE }
  /\ usrpOK \in BOOLEAN
  /\ strict \in BOOLEAN
  /\ pc = "main"
  /\ frame = Idle
  /\ stack = << >>
  /\ retry = FALSE
  /\ blocks = EmptyGraph
  /\ edges = {}
  /\ lifecycle = "Configured"
  /\ error = "none"
  /\ out = << >>
  /\ samp_rate = 0
  /\ windowOpen = FALSE
  /\ quitReq = FALSE
  /\ observed = [ b \in {} |-> 0 ]
  /\ micFailed = FALSE
  /\ startCalls = 0
  /\ stopCalls = 0
  /\ waitCalls = 0
  /\ signals = 0
  /\ setCalls = 0

Alive == pc \notin { "exited", "crashed" }

\* ------------------------------------------------------- the main program
\* tb = <class>(...): fm_tx_rx_usrp_1.py passes fallback = not args.mic.
CallInit ==
  /\ pc = "main"
  /\ frame = Idle
  /\ frame' = Call("init", 0, script = "fm_tx_rx_usrp_1" /\ ~argv.rx /\ ~argv.mic)
  /\ pc' = "init"
  /\ UNCHANGED << env, stack, retry, blocks, edges, lifecycle, error, out, samp_rate,
                  windowOpen, quitReq, observed, micFailed, startCalls, stopCalls,
                  waitCalls, signals, setCalls >>

\* Where an exception raised inside the constructor lands: the except clause
\* of the TX path of fm_tx_rx_usrp_1.py catches the first RuntimeError.
Lands(exc) ==
  IF /\ script = "fm_tx_rx_usrp_1"
     /\ ~argv.rx
     /\ ~retry
     /\ frame.name = "init"
     /\ exc = "RuntimeError"
    THEN "except"
    ELSE "crashed"

\* except RuntimeError: print the error and build the graph again with fallback=True.
Except ==
  /\ pc = "except"
  /\ out' = Append(out, "ERROR")
  /\ error' = "none"
  /\ retry' = TRUE
  /\ frame' = Call("init", 0, TRUE)
  /\ pc' = "init"
  /\ UNCHANGED << env, stack, blocks, edges, lifecycle, samp_rate, windowOpen, quitReq,
                  observed, micFailed, startCalls, stopCalls, waitCalls, signals,
                  setCalls >>

\* tb.start(), then tb.show() in the Qt scripts.
Start ==
  /\ pc = "start"
  /\ frame = Idle
  /\ startCalls' = startCalls + 1
  /\ IF StartOK(strict, blocks, edges, lifecycle)
       THEN /\ lifecycle' = "Running"
            /\ pc' = "loop"
            /\ windowOpen' = (script \in QtScripts)
            /\ error' = error
       ELSE /\ lifecycle' = lifecycle
            /\ pc' = "crashed"
            /\ windowOpen' = windowOpen
            /\ error' = "ConfigurationError"
  /\ UNCHANGED << env, stack, frame, retry, blocks, edges, out, samp_rate, quitReq,
                  observed, micFailed, stopCalls, waitCalls, signals, setCalls >>

\* The constructor or handler has run its last statement: the main program
\* goes on, or the handler that a signal interrupted does.
Return ==
  /\ Alive
  /\ frame.name # "idle"
  /\ frame.i > Len(Body(frame))
  /\ frame' = IF stack = << >> THEN Idle ELSE stack[Len(stack)]
  /\ stack' = IF stack = << >> THEN stack ELSE SubSeq(stack, 1, Len(stack) - 1)
  /\ pc' = CASE frame.name = "init" -> "start"
              [] frame.name = "leave_loop" -> "exited"
              [] OTHER -> pc
  /\ UNCHANGED << env, retry, blocks, edges, lifecycle, error, out, samp_rate,
                  windowOpen, quitReq, observed, micFailed, startCalls, stopCalls,
                  waitCalls, signals, setCalls >>

\* --------------------------------------------------------- the statements
\* print(...)
Print_ ==
  /\ Alive
  /\ Stmt[1] = "print"
  /\ out' = Append(out, Stmt[2])
  /\ frame' = Advance
  /\ UNCHANGED << env, stack, pc, retry, blocks, edges, lifecycle, error, samp_rate,
                  windowOpen, quitReq, observed, micFailed, startCalls, stopCalls,
                  waitCalls, signals, setCalls >>

\* self.<name> = <block>(...), the device it needs being there
New ==
  /\ Alive
  /\ Stmt[1] = "new"
  /\ Available(Stmt[3])
  /\ blocks' = (Stmt[2] :> Stmt[3]) @@ blocks
  /\ frame' = Advance
  /\ UNCHANGED << env, stack, pc, retry, edges, lifecycle, error, out, samp_rate,
                  windowOpen, quitReq, observed, micFailed, startCalls, stopCalls,
                  waitCalls, signals, setCalls >>

\* self.<name> = <block>(...) raises RuntimeError: the device is not there.
\* The half-built flowgraph object is dropped.
NewFails ==
  /\ Alive
  /\ Stmt[1] = "new"
  /\ ~Available(Stmt[3])
  /\ error' = "RuntimeError"
  /\ micFailed' = (micFailed \/ Stmt[3].kind = "audio_source")
  /\ pc' = Lands("RuntimeError")
  /\ frame' = Idle
  /\ blocks' = EmptyGraph
  /\ edges' = {}
  /\ UNCHANGED << env, stack, retry, lifecycle, out, samp_rate, windowOpen, quitReq,
                  observed, startCalls, stopCalls, waitCalls, signals, setCalls >>

\* self.connect(u, v), accepted
Connect ==
  /\ Alive
  /\ Stmt[1] = "connect"
  /\ ConnectOK(strict, blocks, edges, Stmt[2], Stmt[3])
  /\ edges' = edges \cup { << Stmt[2], Stmt[3] >> }
  /\ frame' = Advance
  /\ UNCHANGED << env, stack, pc, retry, blocks, lifecycle, error, out, samp_rate,
                  windowOpen, quitReq, observed, micFailed, startCalls, stopCalls,
                  waitCalls, signals, setCalls >>

\* self.connect(u, v) fails with a ConfigurationError, which nothing catches.
ConnectFails ==
  /\ Alive
  /\ Stmt[1] = "connect"
  /\ ~ConnectOK(strict, blocks, edges, Stmt[2], Stmt[3])
  /\ error' = "ConfigurationError"
  /\ pc' = Lands("ConfigurationError")
  /\ frame' = Idle
  /\ UNCHANGED << env, stack, retry, blocks, edges, lifecycle, out, samp_rate, windowOpen,
                  quitReq, observed, micFailed, startCalls, stopCalls, waitCalls,
                  signals, setCalls >>

\* self.stop()
Stop ==
  /\ Alive
  /\ Stmt[1] = "stop"
  /\ stopCalls' = stopCalls + 1
  /\ lifecycle' = StopGraph(lifecycle)
  /\ frame' = Advance
  /\ UNCHANGED << env, stack, pc, retry, blocks, edges, error, out, samp_rate, windowOpen,
                  quitReq, observed, micFailed, startCalls, waitCalls, signals,
                  setCalls >>

\* self.wait() is entered
WaitCall ==
  /\ Alive
  /\ Stmt[1] = "wait"
  /\ waitCalls' = waitCalls + 1
  /\ frame' = [ frame EXCEPT !.blocked = TRUE ]
  /\ UNCHANGED << env, stack, pc, retry, blocks, edges, lifecycle, error, out, samp_rate,
                  windowOpen, quitReq, observed, micFailed, startCalls, stopCalls,
                  signals, setCalls >>

\* self.wait() returns
WaitReturn ==
  /\ Alive
  /\ frame.blocked
  /\ Joined(lifecycle)
  /\ frame' = Advance
  /\ UNCHANGED << env, stack, pc, retry, blocks, edges, lifecycle, error, out, samp_rate,
                  windowOpen, quitReq, observed, micFailed, startCalls, stopCalls,
                  waitCalls, signals, setCalls >>

\* Qt.QApplication.quit()
Quit ==
  /\ Alive
  /\ Stmt[1] = "quit"
  /\ quitReq' = TRUE
  /\ frame' = Advance
  /\ UNCHANGED << env, stack, pc, retry, blocks, edges, lifecycle, error, out, samp_rate,
                  windowOpen, observed, micFailed, startCalls, stopCalls, waitCalls,
                  signals, setCalls >>

\* event.accept(): the window closes, and the application quits with its last window.
Accept ==
  /\ Alive
  /\ Stmt[1] = "accept"
  /\ windowOpen' = FALSE
  /\ quitReq' = TRUE
  /\ frame' = Advance
  /\ UNCHANGED << env, stack, pc, retry, blocks, edges, lifecycle, error, out, samp_rate,
                  observed, micFailed, startCalls, stopCalls, waitCalls, signals,
                  setCalls >>

\* self.samp_rate = samp_rate
Assign ==
  /\ Alive
  /\ Stmt[1] = "assign"
  /\ samp_rate' = Stmt[2]
  /\ frame' = Advance
  /\ UNCHANGED << env, stack, pc, retry, blocks, edges, lifecycle, error, out, windowOpen,
                  quitReq, observed, micFailed, startCalls, stopCalls, waitCalls,
                  signals, setCalls >>

\* self.signal_source_0.set_sampling_freq(self.samp_rate)
SetSamplingFreq ==
  /\ Alive
  /\ Stmt[1] = "set_sampling_freq"
  /\ blocks' = [ blocks EXCEPT ![Stmt[2]].rate = samp_rate ]
  /\ frame' = Advance
  /\ UNCHANGED << env, stack, pc, retry, edges, lifecycle, error, out, samp_rate,
                  windowOpen, quitReq, observed, micFailed, startCalls, stopCalls,
                  waitCalls, signals, setCalls >>

\* self.uhd_usrp_sink_0.set_samp_rate(self.samp_rate)
SinkSetSampRate ==
  /\ Alive
  /\ Stmt[1] = "set_samp_rate"
  /\ blocks' = [ blocks EXCEPT ![Stmt[2]].rate = samp_rate ]
  /\ frame' = Advance
  /\ UNCHANGED << env, stack, pc, retry, edges, lifecycle, error, out, samp_rate,
                  windowOpen, quitReq, observed, micFailed, startCalls, stopCalls,
                  waitCalls, signals, setCalls >>

\* ------------------------------------------------- what reaches the main loop
\* input() returns: Enter was pressed
PressEnter ==
  /\ script = "fm_tx_rx_usrp_1"
  /\ pc = "loop"
  /\ frame = Idle
  /\ frame' = Call("leave_loop", 0, FALSE)
  /\ pc' = "leaving"
  /\ UNCHANGED << env, stack, retry, blocks, edges, lifecycle, error, out, samp_rate,
                  windowOpen, quitReq, observed, micFailed, startCalls, stopCalls,
                  waitCalls, signals, setCalls >>

\* Ctrl-C in input() or in time.sleep(1): audio_fm_tx.py catches it, and in
\* fm_tx_rx_usrp_1.py it is pending while the finally block runs.
KeyboardInterrupt ==
  /\ script \in { "fm_tx_rx_usrp_1", "audio_fm_tx" }
  /\ pc = "loop"
  /\ frame = Idle
  /\ frame' = Call("leave_loop", 0, FALSE)
  /\ pc' = "leaving"
  /\ signals < MaxSignals
  /\ error' = IF script = "fm_tx_rx_usrp_1" THEN "KeyboardInterrupt" ELSE error
  /\ signals' = signals + 1
  /\ UNCHANGED << env, stack, retry, blocks, edges, lifecycle, out, samp_rate, windowOpen,
                  quitReq, observed, micFailed, startCalls, stopCalls, waitCalls,
                  setCalls >>

\* SIGINT or SIGTERM once sig_handler is installed: the interpreter calls it
\* before the main thread's next statement, from the event loop or in the
\* middle of the handler that is running. A blocked wait() returns first.
Signal ==
  /\ script \in QtScripts
  /\ pc = "loop"
  /\ ~frame.blocked
  /\ signals < MaxSignals
  /\ signals' = signals + 1
  /\ stack' = IF frame = Idle THEN stack ELSE Append(stack, frame)
  /\ frame' = Call("sig_handler", 0, FALSE)
  /\ UNCHANGED << env, pc, retry, blocks, edges, lifecycle, error, out, samp_rate,
                  windowOpen, quitReq, observed, micFailed, startCalls, stopCalls,
                  waitCalls, setCalls >>

\* SIGINT with Python's default handler in place: KeyboardInterrupt is raised
\* before the main thread's next statement, and outside the try blocks
\* nothing catches it. The Qt scripts replace the handler before their loop.
Interrupt ==
  /\ Alive
  /\ ~frame.blocked
  /\ signals < MaxSignals
  /\ pc \in CASE script = "fm_tx_usrp1_rfx900" -> { "main", "init", "start" }
               [] script \in { "audio_fm_rx", "transceive" } -> { "main", "init" }
               [] OTHER -> { "main", "init", "except", "start", "leaving" }
  /\ signals' = signals + 1
  /\ error' = "KeyboardInterrupt"
  /\ pc' = "crashed"
  /\ frame' = Idle
  /\ UNCHANGED << env, stack, retry, blocks, edges, lifecycle, out, samp_rate,
                  windowOpen, quitReq, observed, micFailed, startCalls, stopCalls,
                  waitCalls, setCalls >>

\* The user closes the window: closeEvent is called
CloseWindow ==
  /\ script \in QtScripts
  /\ pc = "loop"
  /\ frame = Idle
  /\ windowOpen
  /\ frame' = Call("closeEvent", 0, FALSE)
  /\ UNCHANGED << env, stack, pc, retry, blocks, edges, lifecycle, error, out, samp_rate,
                  windowOpen, quitReq, observed, micFailed, startCalls, stopCalls,
                  waitCalls, signals, setCalls >>

\* tb.set_samp_rate(r) is called from the main thread
CallSetSampRate ==
  /\ script = "fm_tx_usrp1_rfx900"
  /\ pc = "loop"
  /\ frame = Idle
  /\ setCalls < MaxSetRate
  /\ setCalls' = setCalls + 1
  /\ \E r \in RateChoices : frame' = Call("set_samp_rate", r, FALSE)
  /\ UNCHANGED << env, stack, pc, retry, blocks, edges, lifecycle, error, out, samp_rate,
                  windowOpen, quitReq, observed, micFailed, startCalls, stopCalls,
                  waitCalls, signals >>

\* qapp.exec_() returns after quit(), and main() with it
ExecReturn ==
  /\ script \in QtScripts
  /\ pc = "loop"
  /\ frame = Idle
  /\ quitReq
  /\ pc' = "exited"
  /\ UNCHANGED << env, stack, frame, retry, blocks, edges, lifecycle, error, out,
                  samp_rate, windowOpen, quitReq, observed, micFailed, startCalls,
                  stopCalls, waitCalls, signals, setCalls >>

\* ---------------------------------------------------------- the scheduler
\* One scheduling tick: the blocks stream at the rates they hold right now.
Tick ==
  /\ Alive
  /\ lifecycle = "Running"
  /\ observed' = [ b \in RateBlocks(blocks) |-> blocks[b].rate ]
  /\ UNCHANGED << env, stack, pc, frame, retry, blocks, edges, lifecycle, error, out,
                  samp_rate, windowOpen, quitReq, micFailed, startCalls, stopCalls,
                  waitCalls, signals, setCalls >>

\* The scheduler finishes its tick and halts, the device endpoints stop.
Drain ==
  /\ Alive
  /\ lifecycle = "Stopping"
  /\ lifecycle' = "Stopped"
  /\ UNCHANGED << env, stack, pc, frame, retry, blocks, edges, error, out, samp_rate,
                  windowOpen, quitReq, observed, micFailed, startCalls, stopCalls,
                  waitCalls, signals, setCalls >>

Next ==
  \/ CallInit
  \/ Except
  \/ Start
  \/ Return
  \/ Print_
  \/ New
  \/ NewFails
  \/ Connect
  \/ ConnectFails
  \/ Stop
  \/ WaitCall
  \/ WaitReturn
  \/ Quit
  \/ Accept
  \/ Assign
  \/ SetSamplingFreq
  \/ SinkSetSampRate
  \/ PressEnter
  \/ KeyboardInterrupt
  \/ Signal
  \/ Interrupt
  \/ CloseWindow
  \/ CallSetSampRate
  \/ ExecReturn
  \/ Tick
  \/ Drain

Spec == Init /\ [][Next]_vars

\* ------------------------------------------------------------- properties
Lifecycles == { "Configured", "Running", "Stopping", "Stopped" }

TxPath == script = "fm_tx_rx_usrp_1" /\ ~argv.rx

RxPath == script = "fm_tx_rx_usrp_1" /\ argv.rx

\* The constructor has returned and start() is the next call.
Built == pc = "start"

Printed(tag) == \E i \in 1..Len(out) : out[i] = tag

\* C1: once the TX graph of fm_tx_rx_usrp_1.py is built, it validates: on
\* every edge the upstream block produces the rate the downstream block is
\* declared to take.
C1_TxChainValidates == (TxPath /\ Built) => Validate(blocks, edges)

\* C2: once an FM RX graph is built (fm_rx_usrp1_rfx900_audio or AudioFMRX),
\* the demodulator produces the rate the audio sink was constructed with, and
\* the graph validates.
C2_RxChainsValidate ==
  (Built /\ (RxPath \/ script = "audio_fm_rx")) =>
    LET demod == CHOOSE b \in DOMAIN blocks : blocks[b].kind = "wfm_rcv"
    IN  /\ RateEq(OutRate(blocks, edges, demod), << blocks["audio_sink"].rate, 1 >>)
        /\ Validate(blocks, edges)

\* C3: when the process has left its main loop after start() succeeded,
\* stop() and wait() have been called and the graph is Stopped.
C3_StoppedOnEveryExit ==
  (pc = "exited" /\ startCalls > 0) =>
    (stopCalls > 0 /\ waitCalls > 0 /\ lifecycle = "Stopped")

\* C4: on the TX path of fm_tx_rx_usrp_1.py, once start() has been called the
\* audio source of the graph is an initialised one, and when the first
\* construction failed it is the 1 kHz, 0.5 amplitude tone and the warning
\* has been printed.
C4_FallbackToTone ==
  (TxPath /\ startCalls > 0) =>
    /\ "audio_source" \in DOMAIN blocks
    /\ blocks["audio_source"].kind = "audio_source" => (micOK /\ ~micFailed)
    /\ retry => /\ blocks["audio_source"] = sig_source_f(48000, 1000, 5)
                /\ Printed("WARN")

\* start() was called on the graph rebuilt after the microphone failed.
C4_Witness ==
  TxPath /\ argv.mic /\ micFailed /\ retry /\ startCalls = 1 /\ lifecycle = "Running"

\* C5: a stop() after the first makes no transition and raises no error;
\* when closeEvent runs after sig_handler, its stop() finds the graph Stopped;
\* a wait() after the first finds the graph Stopped, so it does not block;
\* and a Stopped graph stays Stopped.
C5_StopIdempotent ==
  /\ [][(stopCalls' # stopCalls /\ stopCalls >= 1) =>
          (lifecycle' = lifecycle /\ error' = error)]_vars
  /\ [][(stopCalls' # stopCalls /\ stopCalls >= 1 /\ frame.name = "closeEvent") =>
          lifecycle = "Stopped"]_vars
  /\ [][(waitCalls' # waitCalls /\ waitCalls >= 1) =>
          (lifecycle = "Stopped" /\ error' = error)]_vars
  /\ [][lifecycle = "Stopped" => lifecycle' = "Stopped"]_vars

\* Both sig_handler and closeEvent of fm_tx_usrp1_rfx900.py have run, and the
\* second wait() has returned.
C5_Witness ==
  /\ script = "fm_tx_usrp1_rfx900"
  /\ stopCalls = 2
  /\ waitCalls = 2
  /\ signals = 1
  /\ ~windowOpen
  /\ frame = Idle
  /\ stack = << >>
  /\ lifecycle = "Stopped"

\* C6: the lifecycle state is one of the four states and moves only
\* Configured -> Running by start(), Running -> Stopping by stop(),
\* Stopping -> Stopped; start() is called at most once, only in Configured,
\* and once by the time the main loop is entered; stop() only after start(),
\* and wait() never on a Running graph.
C6_Lifecycle ==
  /\ [](lifecycle \in Lifecycles /\ startCalls <= 1)
  /\ [](pc \in { "loop", "leaving", "exited" } => startCalls = 1)
  /\ [][lifecycle' # lifecycle =>
          \/ lifecycle = "Configured" /\ lifecycle' = "Running" /\ startCalls' = startCalls + 1
          \/ lifecycle = "Running" /\ lifecycle' = "Stopping" /\ stopCalls' = stopCalls + 1
          \/ lifecycle = "Stopping" /\ lifecycle' = "Stopped"]_vars
  /\ [][startCalls' # startCalls => (lifecycle = "Configured" /\ startCalls = 0)]_vars
  /\ [][stopCalls' # stopCalls => (startCalls = 1 /\ lifecycle # "Configured")]_vars
  /\ [][waitCalls' # waitCalls => (stopCalls > 0 /\ lifecycle # "Running")]_vars

\* A script has gone through start(), stop() and wait() and has exited.
C6_Witness ==
  /\ pc = "exited"
  /\ startCalls = 1
  /\ stopCalls >= 1
  /\ waitCalls >= 1
  /\ lifecycle = "Stopped"

\* C7: no port has two edges, and no connect() fails with a ConfigurationError.
C7_PortsSingleEdge ==
  /\ \A b \in DOMAIN blocks :
        /\ Cardinality({ e \in edges : e[1] = b }) <= 1
        /\ Cardinality({ e \in edges : e[2] = b }) <= 1
  /\ ~(error = "ConfigurationError" /\ startCalls = 0)

\* C8: blocks and edges are added or removed only inside the constructor,
\* on a Configured graph that start() has not been called on; the topology
\* of a Running or Stopping graph never changes.
C8_TopologyFrozen ==
  [][(edges' # edges \/ DOMAIN blocks' # DOMAIN blocks) =>
       /\ lifecycle = "Configured"
       /\ lifecycle' = "Configured"
       /\ startCalls = 0
       /\ frame.name = "init"]_vars

\* The graph rebuilt by the except clause is being stopped, as it was built.
C8_Witness ==
  /\ TxPath
  /\ retry
  /\ lifecycle = "Stopping"
  /\ edges = { << "audio_source", "resampler" >>, << "resampler", "wfm_tx" >>,
               << "wfm_tx", "usrp_sink" >> }

\* C9: no scheduler tick streams with the tone source and the radio sink at
\* different rates, and once set_samp_rate(r) has returned, get_samp_rate(),
\* the tone source's rate and the sink's rate are all r.
C9_RateChangeAtomic ==
  script = "fm_tx_usrp1_rfx900" =>
    /\ DOMAIN observed # {} =>
          observed["signal_source_0"] = observed["uhd_usrp_sink_0"]
    /\ (pc = "loop" /\ frame = Idle) =>
          /\ blocks["signal_source_0"].rate = samp_rate
          /\ blocks["uhd_usrp_sink_0"].rate = samp_rate

\* C10: while the graph runs, every radio endpoint has an edge, and the
\* displays titled "Received ..." are fed from the radio source.
C10_EndpointsStream ==
  lifecycle = "Running" =>
    /\ \A b \in DOMAIN blocks :
          blocks[b].kind \in { "usrp_source", "usrp_sink" } =>
            \E e \in edges : b \in { e[1], e[2] }
    /\ script = "transceive" =>
          \A d \in { "freq_sink", "time_sink" } : d \in ReachFrom(edges, { "usrp_source" })

====
